---- MODULE Spec2Model ----
(***************************************************************************)
(* Model of gitchart (src/gitchart.py): one chart request per process.     *)
(* Text is modelled as sequences of one-character strings, so that the     *)
(* parsing done by the code (strip, split, int, re.sub, splitext, format)  *)
(* is computed and not assumed.                                            *)
(***************************************************************************)
EXTENDS Integers, Sequences, FiniteSets, TLC

(* ------------------------------------------------------------------ *)
(* Bounds of the exploration                                           *)
(* ------------------------------------------------------------------ *)
\* longest output (in lines) of one git command
MaxLines == 3
\* longest tag list on standard input
MaxTags == 2

(* ------------------------------------------------------------------ *)
(* Python text primitives                                              *)
(* ------------------------------------------------------------------ *)
\* the characters that occur, in code point order (str comparison)
Alphabet == <<"\t", "\n", " ", "#", "(", ")", "+", ",", "-", ".", "/",
              "0", "1", "2", "3", "4", "5", "6", "7", "8", "9", ":",
              "A", "B", "C", "D", "E", "F", "J", "M", "N", "O", "R", "S",
              "T", "W", "_",
              "a", "b", "c", "d", "e", "f", "g", "h", "i", "l", "m", "n",
              "o", "p", "r", "s", "t", "u", "v", "x", "y">>

Ord(c) == CHOOSE i \in 1..Len(Alphabet) : Alphabet[i] = c

Digits == <<"0", "1", "2", "3", "4", "5", "6", "7", "8", "9">>

IsDigit(c) == \E i \in 1..10 : Digits[i] = c

DigitVal(c) == (CHOOSE i \in 1..10 : Digits[i] = c) - 1

\* characters removed by str.strip() and separating fields in str.split()
Whitespace == {" ", "\t", "\n"}

RECURSIVE LStrip(_, _)
LStrip(s, cs) ==
    IF s # <<>> /\ Head(s) \in cs THEN LStrip(Tail(s), cs) ELSE s

RECURSIVE RStrip(_, _)
RStrip(s, cs) ==
    IF s # <<>> /\ s[Len(s)] \in cs
    THEN RStrip(SubSeq(s, 1, Len(s) - 1), cs) ELSE s

\* str.strip(chars)
Strip(s, cs) == RStrip(LStrip(s, cs), cs)

\* index of the first character of s that is in cs, Len(s) + 1 if none
FirstIn(s, cs) ==
    IF \E i \in 1..Len(s) : s[i] \in cs
    THEN CHOOSE i \in 1..Len(s) :
             s[i] \in cs /\ \A j \in 1..(i - 1) : s[j] \notin cs
    ELSE Len(s) + 1

\* str.split(sep) for a one-character separator: never an empty list
RECURSIVE Split(_, _)
Split(s, sep) ==
    LET i == FirstIn(s, {sep})
    IN  IF i > Len(s) THEN <<s>>
        ELSE <<SubSeq(s, 1, i - 1)>> \o Split(SubSeq(s, i + 1, Len(s)), sep)

\* str.split(sep, 1)
Split1(s, sep) ==
    LET i == FirstIn(s, {sep})
    IN  IF i > Len(s) THEN <<s>>
        ELSE <<SubSeq(s, 1, i - 1), SubSeq(s, i + 1, Len(s))>>

\* str.split() without argument: fields between runs of whitespace
RECURSIVE SplitWS(_)
SplitWS(s) ==
    LET t == LStrip(s, Whitespace)
        i == FirstIn(t, Whitespace)
    IN  IF t = <<>> THEN <<>>
        ELSE <<SubSeq(t, 1, i - 1)>> \o SplitWS(SubSeq(t, i, Len(t)))

\* str.replace(old, new) for one-character old and new
Replace(s, old, new) == [i \in 1..Len(s) |-> IF s[i] = old THEN new ELSE s[i]]

\* the text of a number without the blanks around it and without its sign
Unsigned(s) ==
    LET t == Strip(s, Whitespace)
    IN  IF t # <<>> /\ t[1] \in {"+", "-"} THEN Tail(t) ELSE t

\* int(s) raises ValueError unless s is a decimal number: blanks around
\* it, a sign before it and single underscores between its digits are
\* accepted
IsInt(s) ==
    LET u == Unsigned(s)
    IN  /\ u # <<>>
        /\ IsDigit(u[1])
        /\ IsDigit(u[Len(u)])
        /\ \A i \in 1..Len(u) :
               IsDigit(u[i]) \/ (u[i] = "_" /\ u[i - 1] # "_")

RECURSIVE DecVal(_)
DecVal(t) ==
    IF t = <<>> THEN 0
    ELSE IF t[Len(t)] = "_" THEN DecVal(SubSeq(t, 1, Len(t) - 1))
    ELSE 10 * DecVal(SubSeq(t, 1, Len(t) - 1)) + DigitVal(t[Len(t)])

\* int(s), where it does not raise
IntOf(s) ==
    LET t == Strip(s, Whitespace)
    IN  IF t[1] = "-" THEN 0 - DecVal(Unsigned(s)) ELSE DecVal(Unsigned(s))

\* '{0}'.format(n)
RECURSIVE Str(_)
Str(n) == IF n < 0 THEN <<"-">> \o Str(0 - n)
          ELSE IF n < 10 THEN <<Digits[n + 1]>>
          ELSE Str(n \div 10) \o <<Digits[(n % 10) + 1]>>

\* '{0:0Wd}'.format(n) for n >= 0: zero padded to at least w characters
Fmt(n, w) ==
    LET t == Str(n)
    IN  IF Len(t) >= w THEN t ELSE [i \in 1..(w - Len(t)) |-> "0"] \o t

\* a < b for str
RECURSIVE StrLess(_, _)
StrLess(a, b) ==
    IF b = <<>> THEN FALSE
    ELSE IF a = <<>> THEN TRUE
    ELSE IF Head(a) # Head(b) THEN Ord(Head(a)) < Ord(Head(b))
    ELSE StrLess(Tail(a), Tail(b))

RECURSIVE SumSeq(_)
SumSeq(s) == IF s = <<>> THEN 0 ELSE Head(s) + SumSeq(Tail(s))

RECURSIVE Concat(_)
Concat(ss) == IF ss = <<>> THEN <<>> ELSE Head(ss) \o Concat(Tail(ss))

\* sorted(xs, key=..., reverse=...) is stable in both directions: the item
\* at position i goes behind the items that sort before it and the equal
\* items that precede it. key is the sequence of integer keys of xs.
SortedByKey(xs, key, reverse) ==
    LET Before(j, i) == \/ (IF reverse THEN key[j] > key[i]
                                       ELSE key[j] < key[i])
                        \/ (key[j] = key[i] /\ j < i)
        Pos(i) == Cardinality({j \in 1..Len(xs) : Before(j, i)}) + 1
    IN  [p \in 1..Len(xs) |-> xs[CHOOSE i \in 1..Len(xs) : Pos(i) = p]]

\* sorted(xs) for distinct strings
SortedStr(xs) ==
    LET Pos(i) == Cardinality({j \in 1..Len(xs) : StrLess(xs[j], xs[i])}) + 1
    IN  [p \in 1..Len(xs) |-> xs[CHOOSE i \in 1..Len(xs) : Pos(i) = p]]

(* ------------------------------------------------------------------ *)
(* Category tables (dict): pairs key/value in insertion order          *)
(* ------------------------------------------------------------------ *)
Keys(d) == [i \in 1..Len(d) |-> d[i].k]

Values(d) == [i \in 1..Len(d) |-> d[i].v]

HasKey(d, key) == \E i \in 1..Len(d) : d[i].k = key

\* d.get(key, 0)
Get(d, key) ==
    IF HasKey(d, key) THEN d[CHOOSE i \in 1..Len(d) : d[i].k = key].v ELSE 0

\* d[key] = val
Put(d, key, val) ==
    IF HasKey(d, key)
    THEN [i \in 1..Len(d) |-> IF d[i].k = key THEN [k |-> key, v |-> val]
                                              ELSE d[i]]
    ELSE Append(d, [k |-> key, v |-> val])

(* ------------------------------------------------------------------ *)
(* Program constants                                                   *)
(* ------------------------------------------------------------------ *)
\* GitChart.charts: the supported chart kinds
charts == {"authors", "tickets_author", "commits_hour_day",
           "commits_hour_week", "commits_day", "commits_day_week",
           "commits_month", "commits_year", "commits_year_month",
           "commits_version", "files_type"}

\* GitChart.weekdays: strftime('%a') of 2001-01-01 .. 2001-01-07
weekdays == << <<"M", "o", "n">>, <<"T", "u", "e">>, <<"W", "e", "d">>,
               <<"T", "h", "u">>, <<"F", "r", "i">>, <<"S", "a", "t">>,
               <<"S", "u", "n">> >>

\* GitChart.months: strftime('%b') of the twelve months of 2001
months == << <<"J", "a", "n">>, <<"F", "e", "b">>, <<"M", "a", "r">>,
             <<"A", "p", "r">>, <<"M", "a", "y">>, <<"J", "u", "n">>,
             <<"J", "u", "l">>, <<"A", "u", "g">>, <<"S", "e", "p">>,
             <<"O", "c", "t">>, <<"N", "o", "v">>, <<"D", "e", "c">> >>

\* ['{0:02d}'.format(hour) for hour in range(0, 24)]
hours == [h \in 1..24 |-> Fmt(h - 1, 2)]

\* {key: 0 for key in keys}
ZeroTable(keys) == [i \in 1..Len(keys) |-> [k |-> keys[i], v |-> 0]]

\* the alternatives of ISSUES_REGEX_DEFAULT, in the order of the pattern
IssueWords == << <<"c", "l", "o", "s", "e">>,
                 <<"c", "l", "o", "s", "e", "s">>,
                 <<"c", "l", "o", "s", "e", "d">>,
                 <<"f", "i", "x">>,
                 <<"f", "i", "x", "e", "s">>,
                 <<"f", "i", "x", "e", "d">>,
                 <<"r", "e", "s", "o", "l", "v", "e">>,
                 <<"r", "e", "s", "o", "l", "v", "e", "s">>,
                 <<"r", "e", "s", "o", "l", "v", "e", "d">> >>

\* sentinel of the smallest date seen in _chart_commits_year_month
NoDate == 999999

\* max_x_labels passed by _chart_commits_year_month
MaxXLabels == 30

\* default of --max-diff
DefaultMaxDiff == 20

(* ------------------------------------------------------------------ *)
(* The repository and git, as seen through the output of git           *)
(* ------------------------------------------------------------------ *)
\* commits of the repository: date, weekday (1 = Mon) and hour
CommitPool == << [y |-> 2010, m |-> 6, d |-> 1, wd |-> 2, hh |-> 9],
                 [y |-> 2012, m |-> 11, d |-> 30, wd |-> 5, hh |-> 18],
                 [y |-> 2013, m |-> 1, d |-> 1, wd |-> 2, hh |-> 18],
                 [y |-> 2013, m |-> 1, d |-> 2, wd |-> 3, hh |-> 23] >>

\* --date=short: 2013-03-15
ShortDate(c) == Fmt(c.y, 4) \o <<"-">> \o Fmt(c.m, 2) \o <<"-">> \o Fmt(c.d, 2)

ClockZone(c) == Fmt(c.hh, 2) \o <<":", "2", "7", ":", "5", "5", " ",
                                  "+", "0", "1", "0", "0">>

\* --date=iso: 2013-03-15 18:27:55 +0100
IsoDate(c) == ShortDate(c) \o <<" ">> \o ClockZone(c)

\* --date=rfc: Fri, 15 Mar 2013 18:27:55 +0100
RfcDate(c) == weekdays[c.wd] \o <<",", " ">> \o Str(c.d) \o <<" ">>
              \o months[c.m] \o <<" ">> \o Str(c.y) \o <<" ">> \o ClockZone(c)

\* lines of another shape than the one the chart expects
BadShortLine == <<"2", "0", "1", "3">>
BadIsoLine == <<"2", "0", "1", "3", "-", "0", "3", "-", "1", "5">>
BadRfcLine == <<"F", "r", "i", ",", "x">>

\* a date whose month has a sign: int() takes it
SignedShortLine == <<"2", "0", "1", "3", "-", "+", "1", "-", "0", "2">>

\* the well-formed log lines git prints for a chart kind
GoodLogLines(kind) ==
    IF kind = "commits_hour_day"
    THEN [i \in 1..Len(CommitPool) |-> IsoDate(CommitPool[i])]
    ELSE IF kind \in {"commits_hour_week", "commits_day_week"}
    THEN [i \in 1..Len(CommitPool) |-> RfcDate(CommitPool[i])]
    ELSE [i \in 1..Len(CommitPool) |-> ShortDate(CommitPool[i])]

\* the log lines of a chart kind, with a line of another shape
LogLines(kind) ==
    GoodLogLines(kind)
    \o (IF kind = "commits_hour_day" THEN <<BadIsoLine>>
        ELSE IF kind \in {"commits_hour_week", "commits_day_week"}
        THEN <<BadRfcLine>>
        ELSE <<BadShortLine, SignedShortLine>>)

\* git shortlog -sn: one line per author, most commits first
ShortlogLines ==
    << <<" ", " ", " ", " ", " ", "5", "\t", "A", "l">>,
       <<" ", " ", " ", " ", " ", "3", "\t", "B", "o">>,
       <<" ", " ", " ", " ", " ", "3", "\t", "C", "y">>,
       <<" ", " ", " ", " ", " ", "1", "\t", "D", "i">> >>

\* lines whose number has a sign (int() takes it) or is not a number
SignedShortlogLine == <<" ", " ", " ", " ", "-", "2", "\t", "E", "d">>
BadShortlogLine == <<" ", " ", " ", " ", " ", "x", "\t", "F", "y">>

ShortlogPool == ShortlogLines \o <<SignedShortlogLine, BadShortlogLine>>

\* --pretty=format:%aN,%s
GoodSubjectLines ==
    << <<"A", "l", ",", "f", "i", "x", " ", "#", "1">>,
       <<"A", "l", ",", "f", "i", "x", "e", "s", "#", "1", "2">>,
       <<"B", "o", ",", "c", "l", "o", "s", "e", "d", " ", " ", "#", "1">>,
       <<"B", "o", ",", "t", "y", "p", "o", " ", "#", "3">> >>

\* a line without the comma between author and subject
BadSubjectLine == <<"C", "y", " ", "t", "y", "p", "o">>

SubjectLines == GoodSubjectLines \o <<BadSubjectLine>>

\* git ls-tree -r --name-only HEAD: the paths of the tree, sorted
TreeLines ==
    << <<".", "g", "i", "t">>,
       <<"R", "E", "A", "D", "M", "E">>,
       <<"a", ".", "c">>,
       <<"d", ".", "e", "/", "b", ".", "c">>,
       <<"d", ".", "e", "/", "f">>,
       <<"x", ".", "p", "y">> >>

\* tags given on standard input
TagPool ==
    << <<"v", "0", ".", "3", ".", "0">>,
       <<"r", "e", "l", "e", "a", "s", "e", "-", "0", "-", "0", "-", "1">>,
       <<"0", ".", "3", ".", "0">>,
       <<"b", "e", "t", "a">> >>

\* git log --pretty=oneline: one line per commit of the range
OnelineLine == <<"a", "1", " ", "x">>

\* all sequences over 1..n of length 0..len
RECURSIVE SeqsUpTo(_, _)
SeqsUpTo(n, len) ==
    IF len = 0 THEN {<<>>}
    ELSE LET shorter == SeqsUpTo(n, len - 1)
         IN  shorter \cup {Append(s, i) : s \in shorter, i \in 1..n}

\* the strictly increasing ones: selections of a sorted listing
Increasing(n, len) ==
    {s \in SeqsUpTo(n, len) : \A i \in 1..(Len(s) - 1) : s[i] < s[i + 1]}

\* text written by git: the lines, each ended by a newline
Unlines(lines) ==
    Concat([i \in 1..Len(lines) |-> lines[i] \o <<"\n">>])

Pick(pool, sel) == [i \in 1..Len(sel) |-> pool[sel[i]]]

\* the texts the one git command of a chart kind can write
Outputs(kind) ==
    IF kind = "authors"
    THEN {Unlines(Pick(ShortlogPool, sel)) :
              sel \in Increasing(Len(ShortlogPool), MaxLines)}
    ELSE IF kind = "files_type"
    THEN {Unlines(Pick(TreeLines, sel)) :
              sel \in Increasing(Len(TreeLines), MaxLines)}
    ELSE IF kind = "tickets_author"
    THEN {Unlines(Pick(SubjectLines, sel)) :
              sel \in SeqsUpTo(Len(SubjectLines), MaxLines)}
    ELSE {Unlines(Pick(LogLines(kind), sel)) :
              sel \in SeqsUpTo(Len(LogLines(kind)), MaxLines)}

\* the texts of the git log commands of commits_version: per tag, the
\* commits of its range (none, one or two)
RangeOutputs(n) ==
    {[i \in 1..n |-> Unlines([j \in 1..cnt[i] |-> OnelineLine])] :
         cnt \in [1..n -> 0..2]}

\* the tag lists on standard input: different tags, in any order
TagLists ==
    {Pick(TagPool, sel) :
         sel \in {t \in SeqsUpTo(Len(TagPool), MaxTags) :
                      \A i, j \in 1..Len(t) : i # j => t[i] # t[j]}}

\* the values of the options that are explored
MaxDiffs == {-1, 0, 1, 2}
SortMaxes == {-2, 0, 1}

BarKinds == {"commits_hour_day", "commits_day", "commits_day_week",
             "commits_month", "commits_year", "commits_year_month",
             "commits_version"}

\* the chart kinds that read max_diff
MaxDiffKinds == {"authors", "tickets_author", "commits_day", "files_type"}

(* ------------------------------------------------------------------ *)
(* State                                                               *)
(* ------------------------------------------------------------------ *)
VARIABLES
    argv,         \* shape of the command line
    chart_name,   \* positional argument chart
    max_diff,     \* --max-diff
    sort_max,     \* --sort-max
    js,           \* --js
    in_data,      \* text read on standard input
    git_state,    \* "ok", "nonzero" (git exits with an error), "norun"
    git_out,      \* texts written by the successive git commands
    pc,           \* position in the program
    calls,        \* number of git commands that have returned
    stdout,       \* lines returned by _git_command
    idx,          \* position of the loop over the lines (or tags)
    commits,      \* the table being built
    loc,          \* other local variables of the chart method
    chart,        \* entries added to the pie chart so far
    rendered,     \* charts handed to _render
    result,       \* value returned by generate()
    exit_status   \* status of the process, -1 while it runs

vars == <<argv, chart_name, max_diff, sort_max, js, in_data, git_state, git_out,
          pc, calls, stdout, idx, commits, loc, chart, rendered, result,
          exit_status>>

request == <<argv, chart_name, max_diff, sort_max, js, in_data, git_state,
            git_out>>

\* the command lines: no argument at all; --help; --version; one that
\* argparse rejects for another reason than the chart name (no output
\* file, an option that is not a number); a chart name, an output file
\* and well-formed options
ArgvShapes == {"empty", "help", "version", "usage", "chart"}

LocInit == [count |-> 0, count_others |-> 0, sum_others |-> 0,
            min_date |-> NoDate, max_date |-> 0, date |-> 0,
            oldtag |-> <<>>]

\* in_data.strip().split('\n')
Tags == Split(Strip(in_data, Whitespace), "\n")

Init ==
    /\ argv \in ArgvShapes
    /\ chart_name \in (IF argv = "chart" THEN charts \cup {"bogus"}
                                         ELSE {"none"})
    /\ max_diff \in (IF chart_name \in MaxDiffKinds THEN MaxDiffs
                                                   ELSE {DefaultMaxDiff})
    /\ sort_max \in (IF chart_name \in BarKinds THEN SortMaxes ELSE {0})
    /\ js \in (IF argv = "chart" THEN {<<>>, <<"x", ".", "j", "s">>}
                                 ELSE {<<"x", ".", "j", "s">>})
    /\ git_state \in (IF argv = "chart" THEN {"ok", "nonzero", "norun"}
                                        ELSE {"ok"})
    /\ IF chart_name = "commits_version"
       THEN \E tags \in TagLists :
               /\ in_data = Unlines(tags)
               /\ git_out \in (IF git_state = "ok"
                               THEN RangeOutputs(Len(tags))
                               ELSE {[i \in 1..Len(tags) |-> <<>>]})
       ELSE /\ in_data = <<>>
            /\ git_out \in (IF git_state = "ok" /\ chart_name \in charts
                            THEN {<<o>> : o \in Outputs(chart_name)}
                            ELSE {<< <<>> >>})
    /\ js = <<>> => (git_state = "ok" /\ git_out \in {<<>>, << <<>> >>})
    /\ pc = "main"
    /\ calls = 0
    /\ stdout = <<>>
    /\ idx = 1
    /\ commits = <<>>
    /\ loc = LocInit
    /\ chart = <<>>
    /\ rendered = <<>>
    /\ result = "none"
    /\ exit_status = -1

(* ------------------------------------------------------------------ *)
(* Helpers of the chart methods                                        *)
(* ------------------------------------------------------------------ *)
\* s[a:]
SliceFrom(s, a) ==
    LET start == IF a >= 0 THEN a
                 ELSE IF Len(s) + a > 0 THEN Len(s) + a ELSE 0
    IN  SubSeq(s, start + 1, Len(s))

\* s[:b]
SliceTo(s, b) ==
    LET stop == IF b < 0 THEN Len(s) + b
                ELSE IF b < Len(s) THEN b ELSE Len(s)
    IN  SubSeq(s, 1, stop)

StartsAt(s, i, w) ==
    i + Len(w) - 1 <= Len(s) /\ SubSeq(s, i, i + Len(w) - 1) = w

\* the digits captured when ' *#([0-9]+)' matches s from index p on,
\* <<>> when it does not match
IssueTail(s, p) ==
    LET rest == LStrip(SubSeq(s, p, Len(s)), {" "})
    IN  IF rest # <<>> /\ Head(rest) = "#"
        THEN LET after == Tail(rest)
                 n == FirstIn(after, {c \in Whitespace \cup
                                  {Alphabet[i] : i \in 1..Len(Alphabet)} :
                                  ~IsDigit(c)})
             IN  SubSeq(after, 1, n - 1)
        ELSE <<>>

\* group 1 of the match of the issues regex at index i, <<>> if no match
IssueAt(s, i) ==
    LET ok == {w \in 1..Len(IssueWords) :
                   /\ StartsAt(s, i, IssueWords[w])
                   /\ IssueTail(s, i + Len(IssueWords[w])) # <<>>}
    IN  IF ok = {} THEN <<>>
        ELSE LET w == CHOOSE x \in ok : \A z \in ok : x <= z
             IN  IssueTail(s, i + Len(IssueWords[w]))

\* re.search(ISSUES_REGEX_DEFAULT, msg).group(1), <<>> when there is no match
IssueSearch(msg) ==
    LET at == {i \in 1..Len(msg) : IssueAt(msg, i) # <<>>}
    IN  IF at = {} THEN <<>>
        ELSE IssueAt(msg, CHOOSE i \in at : \A j \in at : i <= j)

\* index of the last occurrence of c in s, 0 if none (str.rfind + 1)
LastOf(s, c) ==
    IF \E i \in 1..Len(s) : s[i] = c
    THEN CHOOSE i \in 1..Len(s) :
             s[i] = c /\ \A j \in (i + 1)..Len(s) : s[j] # c
    ELSE 0

\* os.path.splitext(path)[1]
SplitExt(path) ==
    LET sepIndex == LastOf(path, "/")
        dotIndex == LastOf(path, ".")
    IN  IF /\ dotIndex > sepIndex
           /\ \E i \in (sepIndex + 1)..(dotIndex - 1) : path[i] # "."
        THEN SubSeq(path, dotIndex, Len(path))
        ELSE <<>>

NoExtension == <<"(", "n", "o", " ", "e", "x", "t", "e", "n", "s", "i", "o",
                 "n", ")">>

\* re.sub('([^0-9]+)', ' ', tag): every run of non-digits becomes one blank
RECURSIVE SubNonDigits(_)
SubNonDigits(tag) ==
    IF tag = <<>> THEN <<>>
    ELSE IF IsDigit(Head(tag)) THEN <<Head(tag)>> \o SubNonDigits(Tail(tag))
    ELSE LET n == FirstIn(tag, {Digits[i] : i \in 1..10})
         IN  <<" ">> \o SubNonDigits(SubSeq(tag, n, Len(tag)))

\* tag2 of _chart_commits_version
NoStripVersion(tag) == Replace(SubNonDigits(tag), " ", ".")
NormalizeVersion(tag) ==
    Replace(Strip(SubNonDigits(tag), Whitespace), " ", ".")

\* name + ' ({0})'.format(number)
PieLabel(name, number) == name \o <<" ", "(">> \o number \o <<")">>

\* '{0} others ({1})'.format(count_others, sum_others)
OthersLabel(n, total) ==
    Str(n) \o <<" ", "o", "t", "h", "e", "r", "s", " ", "(">>
    \o Str(total) \o <<")">>

\* pie_chart.add of the 'others' entry, if any entry was folded
NoOthers(entries, l) == entries
WithOthers(entries, l) ==
    IF l.count_others # 0
    THEN Append(entries, [label |-> OthersLabel(l.count_others, l.sum_others),
                          value |-> l.sum_others])
    ELSE entries

\* the test that an entry is shown on its own in a pie chart
ShownOffByOne(cnt) == max_diff <= 0 \/ cnt < max_diff
Shown(cnt) == max_diff <= 0 \/ cnt <= max_diff

\* body of the loop that fills a pie chart: the entry is added, or folded
\* into the 'others'; st holds the locals and the entries added so far
PieStep(st, label, value) ==
    LET count == st.loc.count + 1
    IN  IF Shown(count)
        THEN [loc |-> [st.loc EXCEPT !.count = count],
              chart |-> Append(st.chart, [label |-> label, value |-> value])]
        ELSE [loc |-> [st.loc EXCEPT !.count = count,
                                     !.count_others = @ + 1,
                                     !.sum_others = @ + value],
              chart |-> st.chart]

\* the loop over the sorted items of a table (tickets_author, files_type)
RECURSIVE PieLoop(_, _)
PieLoop(items, st) ==
    IF items = <<>> THEN st
    ELSE PieLoop(Tail(items),
                 PieStep(st, PieLabel(Head(items).k, Str(Head(items).v)),
                         Head(items).v))

SortedKeysOldest(data, sorted_keys, max_keys) ==
    LET s1 == IF sort_max # 0
              THEN LET s == SortedByKey(Keys(data), Values(data),
                                        sort_max < 0)
                       keep == -1 * sort_max
                   IN  IF keep > 0 THEN SliceTo(s, keep)
                                   ELSE SliceFrom(s, keep)
              ELSE IF sorted_keys = <<>> THEN SortedStr(Keys(data))
              ELSE sorted_keys
    IN  IF max_keys # 0 THEN SliceTo(s1, max_keys) ELSE s1

\* sorted_keys of _generate_bar_chart
SortedKeys(data, sorted_keys, max_keys) ==
    LET s1 == IF sort_max # 0
              THEN LET s == SortedByKey(Keys(data), Values(data),
                                        sort_max < 0)
                       keep == -1 * sort_max
                   IN  IF keep > 0 THEN SliceTo(s, keep)
                                   ELSE SliceFrom(s, keep)
              ELSE IF sorted_keys = <<>> THEN SortedStr(Keys(data))
              ELSE sorted_keys
    IN  IF max_keys # 0 THEN SliceFrom(s1, -1 * max_keys) ELSE s1

\* x_labels of _generate_bar_chart: one label on num is kept, from the end
XLabels(keys, max_x_labels) ==
    IF Len(keys) > max_x_labels /\ max_x_labels > 0
    THEN LET twice == (Len(keys) \div max_x_labels) * 2
             num == IF twice > 2 THEN twice ELSE 2
         IN  [i \in 1..Len(keys) |->
                 IF (Len(keys) - i) % num # 0 THEN <<>> ELSE keys[i]]
    ELSE keys

\* the bar chart handed to _render by _generate_bar_chart
BarChart(data, sorted_keys, max_keys, max_x_labels) ==
    LET keys == SortedKeys(data, sorted_keys, max_keys)
    IN  [type |-> "bar",
         keys |-> keys,
         x_labels |-> XLabels(keys, max_x_labels),
         values |-> [i \in 1..Len(keys) |-> Get(data, keys[i])]]

PieChart(entries) ==
    [type |-> "pie",
     keys |-> [i \in 1..Len(entries) |-> entries[i].label],
     x_labels |-> <<>>,
     values |-> [i \in 1..Len(entries) |-> entries[i].value]]

(* ------------------------------------------------------------------ *)
(* Steps of the program                                                *)
(* ------------------------------------------------------------------ *)
\* an exception in a chart method: generate() catches it, returns False
Raise ==
    /\ result' = "False"
    /\ pc' = "returned"

\* _render(chart): the renderer writes the chart or raises
Render(c) ==
    /\ rendered' = Append(rendered, c)
    /\ \E written \in BOOLEAN :
           result' = IF written THEN "True" ELSE "False"
    /\ pc' = "returned"

\* length of the loop of the chart method: the tags or the lines
LoopLen == IF chart_name = "commits_version" THEN Len(Tags) ELSE Len(stdout)

AtLine(kind) ==
    pc = "loop" /\ chart_name = kind /\ idx <= LoopLen

AfterLines(kind) ==
    pc = "loop" /\ chart_name = kind /\ idx > LoopLen

\* main, up to the call of generate(): without argument the help is
\* printed and the status is 1; --help and --version print and exit with
\* status 0; argparse rejects a command line it cannot parse and a chart
\* that is not among the choices (parser.error exits with status 2); no
\* javascript file is an error (sys.exit with a message: status 1)
main_parse_args ==
    /\ pc = "main"
    /\ IF argv = "empty"
       THEN pc' = "exit" /\ exit_status' = 1
       ELSE IF argv \in {"help", "version"}
       THEN pc' = "exit" /\ exit_status' = 0
       ELSE IF argv = "usage" \/ chart_name \notin charts
       THEN pc' = "exit" /\ exit_status' = 2
       ELSE IF js = <<>>
       THEN pc' = "exit" /\ exit_status' = 1
       ELSE pc' = "generate" /\ exit_status' = exit_status
    /\ UNCHANGED <<request, calls, stdout, idx, commits, loc, chart,
                   rendered, result>>

\* generate(): dispatch on the chart name; _chart_commits_version returns
\* False at once without data on standard input
generate ==
    /\ pc = "generate"
    /\ IF chart_name = "commits_version"
       THEN IF in_data = <<>>
            THEN pc' = "returned" /\ result' = "False"
            ELSE pc' = "loop" /\ result' = result
       ELSE pc' = "git" /\ result' = result
    /\ UNCHANGED <<request, calls, stdout, idx, commits, loc, chart,
                   rendered, exit_status>>

\* _git_command: Popen raises when git cannot be run; otherwise the text
\* git wrote is returned as lines, whatever the exit status of git
GitLines(n) == Split(Strip(git_out[n], Whitespace), "\n")

\* the table a chart method starts from
InitialTable(kind) ==
    IF kind = "commits_hour_day" THEN ZeroTable(hours)
    ELSE IF kind = "commits_hour_week"
    THEN [i \in 1..7 |-> [k |-> weekdays[i], v |-> ZeroTable(hours)]]
    ELSE IF kind = "commits_day_week" THEN ZeroTable(weekdays)
    ELSE IF kind = "commits_month" THEN ZeroTable(months)
    ELSE <<>>

\* the one git command of every chart but commits_version, and the
\* initialisation of the locals before the loop over its lines
git_command_log ==
    /\ pc = "git"
    /\ IF git_state = "norun"
       THEN Raise /\ UNCHANGED <<calls, stdout, commits>>
       ELSE /\ calls' = calls + 1
            /\ stdout' = GitLines(calls + 1)
            /\ commits' = InitialTable(chart_name)
            /\ pc' = "loop"
            /\ result' = result
    /\ UNCHANGED <<request, idx, loc, chart, rendered, exit_status>>

\* _chart_authors: one line of git shortlog
chart_authors_line ==
    /\ AtLine("authors")
    /\ LET parts == Split1(Strip(stdout[idx], {" "}), "\t")
       IN  IF Len(parts) # 2
           THEN Raise /\ UNCHANGED <<idx, loc, chart>>
           ELSE IF ~IsInt(parts[1])
           THEN /\ Raise
                /\ loc' = [loc EXCEPT
                       !.count = @ + 1,
                       !.count_others = IF Shown(loc.count + 1)
                                        THEN @ ELSE @ + 1]
                /\ UNCHANGED <<idx, chart>>
           ELSE LET st == PieStep([loc |-> loc, chart |-> chart],
                                  PieLabel(parts[2], parts[1]),
                                  IntOf(parts[1]))
                IN  /\ loc' = st.loc
                    /\ chart' = st.chart
                    /\ idx' = idx + 1
                    /\ UNCHANGED <<pc, result>>
    /\ UNCHANGED <<request, calls, stdout, commits, rendered, exit_status>>

\* _chart_authors: after the loop
chart_authors_render ==
    /\ AfterLines("authors")
    /\ Render(PieChart(WithOthers(chart, loc)))
    /\ UNCHANGED <<request, calls, stdout, idx, commits, loc, chart,
                   exit_status>>

\* _chart_tickets_author: one line author,subject
chart_tickets_author_line ==
    /\ AtLine("tickets_author")
    /\ LET parts == Split1(stdout[idx], ",")
       IN  IF Len(parts) # 2
           THEN Raise /\ UNCHANGED <<idx, commits>>
           ELSE LET issue == IssueSearch(parts[2])
                    seen == IF HasKey(commits, parts[1])
                            THEN Get(commits, parts[1]) ELSE {}
                IN  /\ commits' = IF issue # <<>>
                                  THEN Put(commits, parts[1],
                                           seen \cup {issue})
                                  ELSE commits
                    /\ idx' = idx + 1
                    /\ UNCHANGED <<pc, result>>
    /\ UNCHANGED <<request, calls, stdout, loc, chart, rendered, exit_status>>

\* number of tickets per author, most tickets first
TicketItems(tickets_author) ==
    LET counted == [i \in 1..Len(tickets_author) |->
                        [k |-> tickets_author[i].k,
                         v |-> Cardinality(tickets_author[i].v)]]
    IN  SortedByKey(counted, Values(counted), TRUE)

\* _chart_tickets_author: after the loop
chart_tickets_author_render ==
    /\ AfterLines("tickets_author")
    /\ LET st == PieLoop(TicketItems(commits), [loc |-> loc, chart |-> chart])
       IN  /\ loc' = st.loc
           /\ chart' = st.chart
           /\ Render(PieChart(WithOthers(st.chart, st.loc)))
    /\ UNCHANGED <<request, calls, stdout, idx, commits, exit_status>>

\* _chart_files_type: one path of the tree
chart_files_type_line ==
    /\ AtLine("files_type")
    /\ LET e == SplitExt(stdout[idx])
           ext == IF e = <<>> THEN NoExtension ELSE e
       IN  commits' = Put(commits, ext, Get(commits, ext) + 1)
    /\ idx' = idx + 1
    /\ UNCHANGED <<request, pc, calls, stdout, loc, chart, rendered, result,
                   exit_status>>

\* _chart_files_type: after the loop
chart_files_type_render ==
    /\ AfterLines("files_type")
    /\ LET items == SortedByKey(commits, Values(commits), TRUE)
           st == PieLoop(items, [loc |-> loc, chart |-> chart])
       IN  /\ loc' = st.loc
           /\ chart' = st.chart
           /\ Render(PieChart(WithOthers(st.chart, st.loc)))
    /\ UNCHANGED <<request, calls, stdout, idx, commits, exit_status>>

\* commits[key] += 1 on a table with fixed keys: KeyError on another key
Increment(d, key) == Put(d, key, Get(d, key) + 1)

\* the hour of a time 18:27:55: time.split(':')[0]
MinuteField(time) == Split(time, ":")[2]
HourField(time) == Split(time, ":")[1]

\* _chart_commits_hour_day: one line 2013-03-15 18:27:55 +0100
chart_commits_hour_day_line ==
    /\ AtLine("commits_hour_day")
    /\ LET fields == SplitWS(stdout[idx])
       IN  IF Len(fields) < 2
           THEN Raise /\ UNCHANGED <<idx, commits>>
           ELSE LET hour == HourField(fields[2])
                IN  IF ~HasKey(commits, hour)
                    THEN Raise /\ UNCHANGED <<idx, commits>>
                    ELSE /\ commits' = Increment(commits, hour)
                         /\ idx' = idx + 1
                         /\ UNCHANGED <<pc, result>>
    /\ UNCHANGED <<request, calls, stdout, loc, chart, rendered, exit_status>>

\* _chart_commits_hour_week: one line Fri, 15 Mar 2013 18:27:55 +0100
chart_commits_hour_week_line ==
    /\ AtLine("commits_hour_week")
    /\ LET fields == SplitWS(stdout[idx])
       IN  IF Len(fields) # 6
           THEN Raise /\ UNCHANGED <<idx, commits>>
           ELSE LET wday == SliceTo(fields[1], -1)
                    hour == HourField(fields[5])
                IN  IF ~HasKey(commits, wday)
                       \/ ~HasKey(Get(commits, wday), hour)
                    THEN Raise /\ UNCHANGED <<idx, commits>>
                    ELSE /\ commits' = Put(commits, wday,
                                 Increment(Get(commits, wday), hour))
                         /\ idx' = idx + 1
                         /\ UNCHANGED <<pc, result>>
    /\ UNCHANGED <<request, calls, stdout, loc, chart, rendered, exit_status>>

\* _chart_commits_hour_week: after the loop, the dot chart
chart_commits_hour_week_render ==
    /\ AfterLines("commits_hour_week")
    /\ Render([type |-> "dot",
               keys |-> weekdays,
               x_labels |-> hours,
               values |-> [i \in 1..7 |-> Values(Get(commits, weekdays[i]))]])
    /\ UNCHANGED <<request, calls, stdout, idx, commits, loc, chart,
                   exit_status>>

\* _chart_commits_day: one line 2013-03-15
chart_commits_day_line ==
    /\ AtLine("commits_day")
    /\ commits' = Increment(commits, stdout[idx])
    /\ idx' = idx + 1
    /\ UNCHANGED <<request, pc, calls, stdout, loc, chart, rendered, result,
                   exit_status>>

\* _chart_commits_day_week: one line Fri, 15 Mar 2013 18:27:55 +0100
chart_commits_day_week_line ==
    /\ AtLine("commits_day_week")
    /\ LET day == Split(stdout[idx], ",")[1]
       IN  IF ~HasKey(commits, day)
           THEN Raise /\ UNCHANGED <<idx, commits>>
           ELSE /\ commits' = Increment(commits, day)
                /\ idx' = idx + 1
                /\ UNCHANGED <<pc, result>>
    /\ UNCHANGED <<request, calls, stdout, loc, chart, rendered, exit_status>>

\* _chart_commits_month: one line 2013-03-15
chart_commits_month_line ==
    /\ AtLine("commits_month")
    /\ LET parts == Split(stdout[idx], "-")
       IN  IF Len(parts) < 2 \/ ~IsInt(parts[2])
           THEN Raise /\ UNCHANGED <<idx, commits>>
           ELSE LET month == IntOf(parts[2]) - 1
                IN  IF month >= 12 \/ month < -12
                    THEN Raise /\ UNCHANGED <<idx, commits>>
                    ELSE /\ commits' = Increment(commits,
                                                 months[(month % 12) + 1])
                         /\ idx' = idx + 1
                         /\ UNCHANGED <<pc, result>>
    /\ UNCHANGED <<request, calls, stdout, loc, chart, rendered, exit_status>>

\* _chart_commits_year: one line 2013-03-15
chart_commits_year_line ==
    /\ AtLine("commits_year")
    /\ commits' = Increment(commits, Split(stdout[idx], "-")[1])
    /\ idx' = idx + 1
    /\ UNCHANGED <<request, pc, calls, stdout, loc, chart, rendered, result,
                   exit_status>>

\* _chart_commits_year_month: one line 2013-03-15
chart_commits_year_month_line ==
    /\ AtLine("commits_year_month")
    /\ LET parts == SliceTo(Split(stdout[idx], "-"), 2)
       IN  IF Len(parts) # 2 \/ ~IsInt(parts[1]) \/ ~IsInt(parts[2])
           THEN Raise /\ UNCHANGED <<idx, commits, loc>>
           ELSE LET date == (IntOf(parts[1]) * 100) + IntOf(parts[2])
                    year_month == parts[1] \o <<"-">> \o parts[2]
                IN  /\ loc' = [loc EXCEPT
                           !.min_date = IF date < @ THEN date ELSE @,
                           !.max_date = IF date > @ THEN date ELSE @]
                    /\ commits' = Increment(commits, year_month)
                    /\ idx' = idx + 1
                    /\ UNCHANGED <<pc, result>>
    /\ UNCHANGED <<request, calls, stdout, chart, rendered, exit_status>>

\* _chart_commits_year_month: after the loop, start from the first month
chart_commits_year_month_range ==
    /\ AfterLines("commits_year_month")
    /\ IF loc.min_date # NoDate
       THEN pc' = "gapfill" /\ loc' = [loc EXCEPT !.date = loc.min_date]
       ELSE pc' = "bar" /\ loc' = loc
    /\ UNCHANGED <<request, calls, stdout, idx, commits, chart, rendered,
                   result, exit_status>>

\* the month after date (YYYYMM), for example 201312 => 201401
NextMonthNoCarry(date) == date + 1
NextMonth(date) == IF date % 100 = 12 THEN date + 89 ELSE date + 1

\* _chart_commits_year_month: one turn of the loop that adds the months
\* without commit
chart_commits_year_month_gapfill ==
    /\ pc = "gapfill"
    /\ IF loc.date < loc.max_date
       THEN LET year_month == Fmt(loc.date \div 100, 4) \o <<"-">>
                              \o Fmt(loc.date % 100, 2)
            IN  /\ commits' = Put(commits, year_month,
                                  Get(commits, year_month))
                /\ loc' = [loc EXCEPT !.date = NextMonth(loc.date)]
                /\ pc' = pc
       ELSE /\ pc' = "bar"
            /\ UNCHANGED <<commits, loc>>
    /\ UNCHANGED <<request, calls, stdout, idx, chart, rendered, result,
                   exit_status>>

\* _chart_commits_version: one tag, with its git log command
chart_commits_version_tag ==
    /\ AtLine("commits_version")
    /\ IF git_state = "norun"
       THEN Raise /\ UNCHANGED <<calls, idx, commits, loc>>
       ELSE LET tag == Tags[idx]
                tag2 == NormalizeVersion(tag)
            IN  /\ commits' = Put(commits, tag2, Len(GitLines(calls + 1)))
                /\ calls' = calls + 1
                /\ loc' = [loc EXCEPT !.oldtag = tag]
                /\ idx' = idx + 1
                /\ UNCHANGED <<pc, result>>
    /\ UNCHANGED <<request, stdout, chart, rendered, exit_status>>

\* position of key in a list of names (list.index)
IndexIn(names, key) == CHOOSE i \in 1..Len(names) : names[i] = key

\* sorted(commits, key=names.index)
SortedByName(d, names) ==
    SortedByKey(Keys(d), [i \in 1..Len(d) |-> IndexIn(names, d[i].k)], FALSE)

BarArgsNoOrder(kind) ==
    [sorted_keys |-> <<>>,
     max_keys |-> IF kind = "commits_day" THEN max_diff ELSE 0,
     max_x_labels |-> IF kind = "commits_year_month" THEN MaxXLabels ELSE 0]

\* the arguments sorted_keys, max_keys and max_x_labels of the call of
\* _generate_bar_chart in each chart method
BarArgs(kind) ==
    [sorted_keys |-> IF kind = "commits_day_week"
                     THEN SortedByName(commits, weekdays)
                     ELSE IF kind = "commits_month"
                     THEN SortedByName(commits, months)
                     ELSE <<>>,
     max_keys |-> IF kind = "commits_day" THEN max_diff ELSE 0,
     max_x_labels |-> IF kind = "commits_year_month" THEN MaxXLabels ELSE 0]

\* _generate_bar_chart, called at the end of the bar chart methods
generate_bar_chart ==
    /\ chart_name \in BarKinds
    /\ \/ pc = "bar"
       \/ chart_name # "commits_year_month" /\ AfterLines(chart_name)
    /\ LET a == BarArgs(chart_name)
       IN  Render(BarChart(commits, a.sorted_keys, a.max_keys,
                           a.max_x_labels))
    /\ UNCHANGED <<request, calls, stdout, idx, commits, loc, chart,
                   exit_status>>

\* main, after generate(): status 0 if the chart was generated, else 1
main_exit ==
    /\ pc = "returned"
    /\ exit_status' = IF result = "True" THEN 0 ELSE 1
    /\ pc' = "exit"
    /\ UNCHANGED <<request, calls, stdout, idx, commits, loc, chart,
                   rendered, result>>

Next ==
    \/ main_parse_args
    \/ generate
    \/ git_command_log
    \/ chart_authors_line
    \/ chart_authors_render
    \/ chart_tickets_author_line
    \/ chart_tickets_author_render
    \/ chart_commits_hour_day_line
    \/ chart_commits_hour_week_line
    \/ chart_commits_hour_week_render
    \/ chart_commits_day_line
    \/ chart_commits_day_week_line
    \/ chart_commits_month_line
    \/ chart_commits_year_line
    \/ chart_commits_year_month_line
    \/ chart_commits_year_month_range
    \/ chart_commits_year_month_gapfill
    \/ chart_commits_version_tag
    \/ chart_files_type_line
    \/ chart_files_type_render
    \/ generate_bar_chart
    \/ main_exit

Spec == Init /\ [][Next]_vars

TypeOK ==
    /\ pc \in {"main", "generate", "git", "loop", "gapfill", "bar",
               "returned", "exit"}
    /\ result \in {"none", "True", "False"}
    /\ exit_status \in {-1, 0, 1, 2}
    /\ argv \in ArgvShapes
    /\ Len(rendered) <= 1

(* ------------------------------------------------------------------ *)
(* Properties                                                          *)
(* ------------------------------------------------------------------ *)
PieKinds == {"authors", "tickets_author", "files_type"}

\* the run is over: generate() has returned
Returned == pc \in {"returned", "exit"}

\* the keys of a pie chart with their counts: the authors of the shortlog
\* lines, the authors with tickets, the extensions
PieItems ==
    IF chart_name = "authors"
    THEN [i \in 1..Len(stdout) |->
             LET parts == Split1(Strip(stdout[i], {" "}), "\t")
             IN  [k |-> parts[2], v |-> IntOf(parts[1]), t |-> parts[1]]]
    ELSE IF chart_name = "tickets_author"
    THEN [i \in 1..Len(commits) |->
             [k |-> commits[i].k, v |-> Cardinality(commits[i].v),
              t |-> Str(Cardinality(commits[i].v))]]
    ELSE [i \in 1..Len(commits) |->
             [k |-> commits[i].k, v |-> commits[i].v,
              t |-> Str(commits[i].v)]]

\* the first n entries of pie chart c are n different keys with their counts
Individual(c, items, n) ==
    /\ \A i \in 1..n : \E j \in 1..Len(items) :
           /\ c.keys[i] = PieLabel(items[j].k, items[j].t)
           /\ c.values[i] = items[j].v
    /\ \A i, j \in 1..n : i # j => c.keys[i] # c.keys[j]

\* C1: in the pie charts (authors, tickets_author, files_type), with N keys
\* and a limit max_diff = K, 0 < K < N, the renderer receives K individual
\* entries and one 'others' entry whose value is the sum of the counts of
\* the N - K other keys; with K <= 0 or K >= N every key has its entry and
\* there is no 'others' entry.
C1_Truncation ==
    (chart_name \in PieKinds /\ rendered # <<>>) =>
        LET c == rendered[1]
            items == PieItems
            N == Len(items)
            K == max_diff
            total == SumSeq(Values(items))
        IN  IF 0 < K /\ K < N
            THEN /\ Len(c.keys) = K + 1
                 /\ Individual(c, items, K)
                 /\ c.values[K + 1] = total - SumSeq(SubSeq(c.values, 1, K))
                 /\ c.keys[K + 1] = OthersLabel(N - K, c.values[K + 1])
            ELSE /\ Len(c.keys) = N
                 /\ Individual(c, items, N)

\* a pie chart of three keys was rendered with a limit of two
C1_Witness ==
    /\ chart_name \in PieKinds
    /\ rendered # <<>>
    /\ max_diff = 2
    /\ Len(PieItems) = 3
    /\ Len(rendered[1].keys) = 3
    /\ rendered[1].values[3] > 0

\* the chart kinds that parse the lines of a git log
LogKinds == charts \ {"commits_version", "files_type"}

\* the line has the shape git gives it for the chart kind
WellFormedLine(kind, line) ==
    LET good == IF kind = "authors" THEN ShortlogLines
                ELSE IF kind = "tickets_author" THEN GoodSubjectLines
                ELSE GoodLogLines(kind)
    IN  \E i \in 1..Len(good) :
            Strip(good[i], Whitespace) = Strip(line, Whitespace)

MalformedInput ==
    /\ chart_name \in LogKinds
    /\ \E i \in 1..Len(stdout) : ~WellFormedLine(chart_name, stdout[i])

\* the number of records in the input: the commits counted by the shortlog
\* lines (authors), the lines returned by the git commands (other kinds)
InputRecords ==
    IF chart_name = "authors"
    THEN SumSeq(Values(PieItems))
    ELSE IF chart_name = "commits_version"
    THEN SumSeq([i \in 1..calls |-> Len(GitLines(i))])
    ELSE Len(stdout)

\* the sum of the values of a chart handed to the renderer
ChartSum(c) ==
    IF c.type = "dot"
    THEN SumSeq([i \in 1..Len(c.values) |-> SumSeq(c.values[i])])
    ELSE SumSeq(c.values)

\* C2 as stated, in the bar charts of well-formed git log lines with the
\* options in their documented range: for every max_diff and sort_max the
\* counts handed to the renderer add up to the number of input records.
C2_Original ==
    (/\ rendered # <<>>
     /\ chart_name \in BarKinds \ {"commits_version"}
     /\ ~MalformedInput
     /\ max_diff >= 0) =>
        ChartSum(rendered[1]) = InputRecords

\* no key of the table is left out of the chart by sort_max or by the day
\* cap, and no two tags share a key of the table
AllKeysShown ==
    /\ rendered[1].type = "bar" => Len(rendered[1].keys) = Len(commits)
    /\ chart_name = "commits_version" => Len(commits) = Len(Tags)

\* C2 (amended): whenever a chart other than tickets_author is rendered and
\* every key of the table is shown, the values handed to the renderer
\* ('others' included) add up to the number of lines returned by git (for
\* authors: to the sum of the commit numbers of the lines).
C2_Conservation ==
    (rendered # <<>> /\ chart_name # "tickets_author" /\ AllKeysShown) =>
        ChartSum(rendered[1]) = InputRecords

\* three commits on two days, all the days shown under a cap of two days
C2_Witness ==
    /\ chart_name = "commits_day"
    /\ rendered # <<>>
    /\ max_diff = 2
    /\ sort_max = 0
    /\ Len(stdout) = 3
    /\ Len(rendered[1].keys) = 2
    /\ rendered[1].values = <<1, 2>>

\* the commit of the repository that git printed as this date
CommitOf(line) ==
    CHOOSE c \in {CommitPool[i] : i \in 1..Len(CommitPool)} :
        ShortDate(c) = line

\* every line is the date of a commit, and there is at least one
WellFormedDates ==
    /\ stdout # <<>>
    /\ \A i \in 1..Len(stdout) : \E j \in 1..Len(CommitPool) :
           stdout[i] = ShortDate(CommitPool[j])

\* months counted from year 0
MonthNumber(c) == (c.y * 12) + (c.m - 1)

ObservedMonths == {MonthNumber(CommitOf(stdout[i])) : i \in 1..Len(stdout)}

\* the key 'YYYY-MM' of a month
MonthKey(n) == Fmt(n \div 12, 4) \o <<"-">> \o Fmt((n % 12) + 1, 2)

\* the table of commits_year_month once the months without commit are added
C3_Filled ==
    (/\ chart_name = "commits_year_month"
     /\ pc \in {"bar", "returned", "exit"}
     /\ WellFormedDates) =>
        LET lo == CHOOSE n \in ObservedMonths : \A o \in ObservedMonths : n <= o
            hi == CHOOSE n \in ObservedMonths : \A o \in ObservedMonths : n >= o
        IN  /\ {commits[i].k : i \in 1..Len(commits)}
                   = {MonthKey(n) : n \in lo..hi}
            /\ Len(commits) = hi - lo + 1
            /\ \A i \in 1..Len(commits) : commits[i].v >= 0

\* a turn of the loop that adds the months moves date forward to a later
\* month, never beyond the last month observed; the loop is left when the
\* last month is reached
C3_Progress ==
    pc = "gapfill" =>
        IF loc.date < loc.max_date
        THEN /\ pc' = "gapfill"
             /\ loc'.date > loc.date
             /\ loc'.date <= loc.max_date
             /\ (loc'.date % 100) \in 1..12
        ELSE pc' = "bar"

\* C3: after the aggregation of well-formed dates, the table of
\* commits_year_month has a key 'YYYY-MM' for every month from the first to
\* the last month observed (count >= 0) and no other key, and the loop that
\* adds the months ends (every turn moves to a later month, up to the last
\* one), also across December/January.
C3_GapFill == [](C3_Filled) /\ [][C3_Progress]_vars

\* months were added from 2012-11 to 2013-01, across the end of the year
C3_Witness ==
    /\ chart_name = "commits_year_month"
    /\ pc = "bar"
    /\ loc.min_date = 201211
    /\ loc.max_date = 201301
    /\ HasKey(commits, <<"2", "0", "1", "2", "-", "1", "2">>)
    /\ Get(commits, <<"2", "0", "1", "2", "-", "1", "2">>) = 0

\* the names of the x labels of the charts by day of week and by month
CalendarNames == IF chart_name = "commits_day_week" THEN weekdays ELSE months

\* the labels are names of the calendar, in the order of the calendar
CalendarOrder(labels, names) ==
    /\ \A i \in 1..Len(labels) : \E n \in 1..Len(names) : names[n] = labels[i]
    /\ \A i, j \in 1..Len(labels) :
           i < j => IndexIn(names, labels[i]) < IndexIn(names, labels[j])

\* C4 as stated (on well-formed log lines): the x labels of
\* commits_day_week and commits_month follow the order of the calendar for
\* every input and every value of sort_max.
C4_Original ==
    (/\ rendered # <<>>
     /\ chart_name \in {"commits_day_week", "commits_month"}
     /\ ~MalformedInput)
        => CalendarOrder(rendered[1].x_labels, CalendarNames)

\* C4 (amended): with sort_max = 0 the x labels of commits_day_week and
\* commits_month are Mon..Sun and Jan..Dec, in the order of the calendar,
\* for every input.
C4_CalendarOrder ==
    (/\ rendered # <<>>
     /\ chart_name \in {"commits_day_week", "commits_month"}
     /\ sort_max = 0) =>
        /\ rendered[1].x_labels = CalendarNames
        /\ CalendarOrder(rendered[1].x_labels, CalendarNames)

\* a chart by day of week with commits on Tuesday and on Friday
C4_Witness ==
    /\ chart_name = "commits_day_week"
    /\ rendered # <<>>
    /\ sort_max = 0
    /\ rendered[1].values[2] > 0
    /\ rendered[1].values[5] > 0

\* the chart was written by the renderer
ChartGenerated == rendered # <<>> /\ result = "True"

\* the failures named by the specification: git cannot be run or fails, the
\* chart kind is not supported, no tag for commits_version
RequestFailure ==
    \/ argv = "chart" /\ chart_name \notin charts
    \/ git_state # "ok"
    \/ chart_name = "commits_version" /\ in_data = <<>>

\* C5: the process exits with status 0 exactly when the chart was
\* generated, and with status 1 on every failure (external process error,
\* unsupported chart kind, empty tag list for commits_version).
C5_ExitStatus ==
    (pc = "exit" /\ argv = "chart") =>
        /\ exit_status = 0 <=> ChartGenerated
        /\ RequestFailure => exit_status = 1

\* C6: when git cannot be run or exits with an error, no chart is rendered
\* and generate() returns False.
C6_CollectorFatal ==
    (result # "none" /\ git_state # "ok") =>
        (rendered = <<>> /\ result = "False")

\* C7: in every chart kind that parses log lines, a line of another shape
\* than the expected one (the empty line of an empty output included)
\* aborts the request: it is not counted under a key.
C7_MalformedRejected ==
    (result # "none" /\ MalformedInput) =>
        (rendered = <<>> /\ result = "False")

\* the git commands of the request
GitCommands == IF chart_name = "commits_version" THEN Len(Tags) ELSE 1

\* C8: the renderer is invoked at most once, and only after every git
\* command has returned and every line is counted; when collection or
\* parsing fails it is never invoked and generate() returns False.
C8_NoPartialChart ==
    /\ Len(rendered) <= 1
    /\ rendered # <<>> => (calls = GitCommands /\ idx > LoopLen)
    /\ (result # "none" /\ (git_state # "ok" \/ MalformedInput)) =>
           (rendered = <<>> /\ result = "False")

\* the hour of the commit that git printed as this ISO date
HourOf(line) ==
    (CHOOSE c \in {CommitPool[i] : i \in 1..Len(CommitPool)} :
         IsoDate(c) = line).hh

\* C9: for well-formed ISO lines the table of commits_hour_day has exactly
\* the keys '00'..'23', and the value of a key is the number of lines
\* (counted so far) with that hour; when the method returns, every line is
\* counted.
C9_HourOfDay ==
    (/\ chart_name = "commits_hour_day"
     /\ calls = 1
     /\ \A i \in 1..Len(stdout) :
            \E j \in 1..Len(CommitPool) : stdout[i] = IsoDate(CommitPool[j]))
    => /\ Keys(commits) = hours
       /\ Returned => idx = Len(stdout) + 1
       /\ \A h \in 0..23 :
              Get(commits, Fmt(h, 2)) =
                  Cardinality({i \in 1..(idx - 1) : HourOf(stdout[i]) = h})

\* three lines counted: two at 18 h, one at 9 h
C9_Witness ==
    /\ chart_name = "commits_hour_day"
    /\ Len(stdout) = 3
    /\ idx = 4
    /\ Get(commits, <<"1", "8">>) = 2
    /\ Get(commits, <<"0", "9">>) = 1
    /\ SumSeq(Values(commits)) = 3

\* the maximal runs of digits of a tag, in order
RECURSIVE DigitRuns(_)
DigitRuns(tag) ==
    IF tag = <<>> THEN <<>>
    ELSE IF IsDigit(Head(tag))
    THEN LET n == IF \E i \in 1..Len(tag) : ~IsDigit(tag[i])
                  THEN CHOOSE i \in 1..Len(tag) :
                           ~IsDigit(tag[i]) /\ \A j \in 1..(i - 1) :
                                                   IsDigit(tag[j])
                  ELSE Len(tag) + 1
         IN  <<SubSeq(tag, 1, n - 1)>> \o DigitRuns(SubSeq(tag, n, Len(tag)))
    ELSE DigitRuns(Tail(tag))

RECURSIVE JoinDots(_)
JoinDots(runs) ==
    IF runs = <<>> THEN <<>>
    ELSE IF Len(runs) = 1 THEN Head(runs)
    ELSE Head(runs) \o <<".">> \o JoinDots(Tail(runs))

\* only digits and single '.' between them
VersionShape(key) ==
    /\ \A i \in 1..Len(key) : IsDigit(key[i]) \/ key[i] = "."
    /\ key # <<>> => (key[1] # "." /\ key[Len(key)] # ".")
    /\ \A i \in 1..(Len(key) - 1) : ~(key[i] = "." /\ key[i + 1] = ".")

\* C10: the key of a tag in the table of commits_version is the tag with
\* every run of non-digits replaced by one '.', without '.' at either end
\* ('v0.3.0' gives '0.3.0', 'release-0-0-1' gives '0.0.1'): only digits and
\* single '.' separators.
C10_VersionKey ==
    chart_name = "commits_version" =>
        /\ \A i \in 1..(idx - 1) :
               /\ HasKey(commits, JoinDots(DigitRuns(Tags[i])))
               /\ Tags[i] = <<"v", "0", ".", "3", ".", "0">> =>
                      HasKey(commits, <<"0", ".", "3", ".", "0">>)
               /\ Tags[i] = TagPool[2] =>
                      HasKey(commits, <<"0", ".", "0", ".", "1">>)
        /\ \A j \in 1..Len(commits) :
               /\ VersionShape(commits[j].k)
               /\ \E i \in 1..(idx - 1) :
                      commits[j].k = JoinDots(DigitRuns(Tags[i]))

\* the tags v0.3.0 and release-0-0-1 were counted
C10_Witness ==
    /\ chart_name = "commits_version"
    /\ idx = 3
    /\ Tags = <<TagPool[1], TagPool[2]>>
    /\ Keys(commits) = << <<"0", ".", "3", ".", "0">>,
                          <<"0", ".", "0", ".", "1">> >>

\* position of a key in the table (insertion order)
TablePos(key) == CHOOSE i \in 1..Len(commits) : commits[i].k = key

\* the keys of bar chart c are n keys of the table with the highest counts,
\* by ascending (descending if reverse) count, equal counts in the order of
\* insertion in the table
TopSorted(c, n, reverse) ==
    /\ Len(c.keys) = n
    /\ \A i \in 1..n : /\ HasKey(commits, c.keys[i])
                       /\ c.values[i] = Get(commits, c.keys[i])
    /\ \A i, j \in 1..n : i # j => c.keys[i] # c.keys[j]
    /\ \A i \in 1..n : \A t \in 1..Len(commits) :
           (\A j \in 1..n : c.keys[j] # commits[t].k)
               => commits[t].v <= c.values[i]
    /\ \A i, j \in 1..n :
           i < j => /\ IF reverse THEN c.values[i] >= c.values[j]
                                  ELSE c.values[i] <= c.values[j]
                    /\ c.values[i] = c.values[j]
                           => TablePos(c.keys[i]) < TablePos(c.keys[j])

\* C11: with sort_max # 0 a bar chart shows the |sort_max| keys of the table
\* with the highest counts (all the keys if there are fewer), by ascending
\* count when sort_max > 0 and by descending count when sort_max < 0, keys
\* with equal counts in their order of insertion in the table.
C11_SortAndLimit ==
    (/\ rendered # <<>>
     /\ chart_name \in BarKinds
     /\ sort_max # 0
     /\ max_diff >= 0) =>
        LET abs == IF sort_max < 0 THEN -1 * sort_max ELSE sort_max
            n == IF abs < Len(commits) THEN abs ELSE Len(commits)
        IN  TopSorted(rendered[1], n, sort_max < 0)

\* the commits that git lists for the range of the i-th tag: one line each
CommitsInRange(i) ==
    Cardinality({j \in 1..Len(git_out[i]) : git_out[i][j] = "\n"})

\* C12: for the tag list t1..tn the value stored for ti is the number of
\* commits of the range t(i-1)..ti (for t1: of the commits reachable from
\* t1), 0 included, and the table has one entry per tag.
C12_IntervalCounts ==
    (chart_name = "commits_version" /\ git_state = "ok" /\ pc # "main"
     /\ in_data # <<>>) =>
        /\ Len(commits) = idx - 1
        /\ \A i \in 1..(idx - 1) :
               /\ HasKey(commits, NormalizeVersion(Tags[i]))
               /\ Get(commits, NormalizeVersion(Tags[i])) = CommitsInRange(i)

\* days counted from the date
DayNumber(c) == (c.y * 10000) + (c.m * 100) + c.d

ObservedDays == {DayNumber(CommitOf(stdout[i])) : i \in 1..Len(stdout)}

\* the days of the log as keys 'YYYY-MM-DD', the oldest first
ChronologicalDays ==
    LET days == ObservedDays
        DayAt(p) == CHOOSE x \in days :
                        Cardinality({y \in days : y < x}) = p - 1
    IN  [p \in 1..Cardinality(days) |->
            Fmt(DayAt(p) \div 10000, 4) \o <<"-">>
            \o Fmt((DayAt(p) \div 100) % 100, 2) \o <<"-">>
            \o Fmt(DayAt(p) % 100, 2)]

\* the n most recent days when there are more than n > 0 days, else all
DaysExpected(n) ==
    LET all == ChronologicalDays
    IN  IF n > 0 /\ Len(all) > n
        THEN SubSeq(all, Len(all) - n + 1, Len(all))
        ELSE all

\* C13 as stated (on well-formed dates): with max_diff = N > 0 and more
\* than N days, commits_day shows the N most recent days in chronological
\* order, with max_diff = 0 all the days, for every value of sort_max.
C13_Original ==
    (/\ chart_name = "commits_day"
     /\ rendered # <<>>
     /\ WellFormedDates
     /\ max_diff >= 0) =>
        rendered[1].keys = DaysExpected(max_diff)

\* C13 (amended): with sort_max = 0 and well-formed dates, commits_day
\* shows the N most recent days in chronological order when max_diff = N > 0
\* and there are more than N days, and all the days when max_diff = 0.
C13_DayCap ==
    (/\ chart_name = "commits_day"
     /\ rendered # <<>>
     /\ WellFormedDates
     /\ sort_max = 0
     /\ max_diff >= 0) =>
        /\ rendered[1].keys = DaysExpected(max_diff)
        /\ rendered[1].values =
               [i \in 1..Len(rendered[1].keys) |->
                    Cardinality({j \in 1..Len(stdout) :
                                     stdout[j] = rendered[1].keys[i]})]

\* three days in the log, the two most recent ones shown
C13_Witness ==
    /\ chart_name = "commits_day"
    /\ rendered # <<>>
    /\ WellFormedDates
    /\ sort_max = 0
    /\ max_diff = 2
    /\ Cardinality(ObservedDays) = 3
    /\ Len(rendered[1].keys) = 2

====
